---------------------------- MODULE Spec2Model ----------------------------
(***************************************************************************)
(* Model of minion.backend.views.sites: the site registry, the group       *)
(* membership index, the credential store and the scan-schedule engine.    *)
(*                                                                         *)
(* Every handler is a sequence of steps, one per access to the storage     *)
(* layer (a MongoDB collection); the local computation between two         *)
(* accesses belongs to the step of the access that follows it.  A request  *)
(* worker runs one handler at a time.  The sequential specifications run a *)
(* single worker, the concurrent ones run all of them interleaved.         *)
(***************************************************************************)
EXTENDS Integers, Sequences, FiniteSets, Bags, TLC

VARIABLES
    sites,            \* collection `sites`: a set of site documents
    groups,           \* collection `groups`: group name -> its `sites` set
    siteCredentials,  \* collection `siteCredentials`: a bag of documents
    scanschedules,    \* collection `scanschedules`: a bag of documents
    nextUuid,         \* the next value uuid.uuid4() hands out
    pc,               \* worker -> position in its handler
    req,              \* worker -> the request it handles (or handled last)
    loc,              \* worker -> the handler's local variables
    resp,             \* worker -> the response it returned last
    follows           \* worker -> how its request follows its previous one (history)

vars == <<sites, groups, siteCredentials, scanschedules, nextUuid,
          pc, req, loc, resp, follows>>

stores == <<sites, groups, siteCredentials, scanschedules>>

(***************************************************************************)
(* Bounds and fixed domains                                                *)
(***************************************************************************)
\* uuid4() is called at most MaxUuid times in a behaviour
MaxUuid == 4

Workers == {"w1", "w2"}
W1 == "w1"

\* Python's None, where it is stored or compared with strings
None == "<None>"

NoRequest == [op |-> "none"]
NoLocals == [none |-> TRUE]
NoResponse == [status |-> "none"]

(***************************************************************************)
(* Strings.  TLC cannot index a string, so the parsers work on the         *)
(* character sequence of a string, spelled out here for every string the   *)
(* model feeds to a parser.                                                *)
(***************************************************************************)
\* the urls handed to _check_site_url are put together from a scheme, a host
\* and what follows the host
PartChars(s) ==
    CASE s = "" -> <<>>
      [] s = "http://" -> <<"h", "t", "t", "p", ":", "/", "/">>
      [] s = "https://" -> <<"h", "t", "t", "p", "s", ":", "/", "/">>
      [] s = "ftp://" -> <<"f", "t", "p", ":", "/", "/">>
      [] s = "localhost" -> <<"l", "o", "c", "a", "l", "h", "o", "s", "t">>
      [] s = "a.b" -> <<"a", ".", "b">>
      [] s = "x" -> <<"x">>
      [] s = "a-1.b2.c" -> <<"a", "-", "1", ".", "b", "2", ".", "c">>
      [] s = "1.2.3.4" -> <<"1", ".", "2", ".", "3", ".", "4">>
      [] s = "256.1.1.1" -> <<"2", "5", "6", ".", "1", ".", "1", ".", "1">>
      [] s = ":80" -> <<":", "8", "0">>
      [] s = "/0" -> <<"/", "0">>
      [] s = "/32" -> <<"/", "3", "2">>
      [] s = "/33" -> <<"/", "3", "3">>
      [] s = "/x" -> <<"/", "x">>

UrlSchemes == {"", "http://", "https://", "ftp://"}
UrlHosts == {"localhost", "a.b", "x", "a-1.b2.c", "1.2.3.4", "256.1.1.1"}
UrlTails == {"", ":80", "/0", "/32", "/33", "/x"}
UrlInputs == [scheme : UrlSchemes, host : UrlHosts, tail : UrlTails]

UrlString(u) == u.scheme \o u.host \o u.tail

UrlChars(u) == PartChars(u.scheme) \o PartChars(u.host) \o PartChars(u.tail)

Chars(s) ==
    CASE s = ""       -> <<>>
      [] s = "*"      -> <<"*">>
      [] s = "*/5"    -> <<"*", "/", "5">>
      [] s = "*/0"    -> <<"*", "/", "0">>
      [] s = "*/"     -> <<"*", "/">>
      [] s = "1-3"    -> <<"1", "-", "3">>
      [] s = "1-3/2"  -> <<"1", "-", "3", "/", "2">>
      [] s = "1-3/"   -> <<"1", "-", "3", "/">>
      [] s = "5-70"   -> <<"5", "-", "7", "0">>
      [] s = "1,3,5"  -> <<"1", ",", "3", ",", "5">>
      [] s = "1,,5"   -> <<"1", ",", ",", "5">>
      [] s = "1,99"   -> <<"1", ",", "9", "9">>
      [] s = "-1"     -> <<"-", "1">>
      [] s = "0"      -> <<"0">>
      [] s = "1"      -> <<"1">>
      [] s = "5"      -> <<"5">>
      [] s = "6"      -> <<"6">>
      [] s = "7"      -> <<"7">>
      [] s = "12"     -> <<"1", "2">>
      [] s = "13"     -> <<"1", "3">>
      [] s = "15"     -> <<"1", "5">>
      [] s = "23"     -> <<"2", "3">>
      [] s = "24"     -> <<"2", "4">>
      [] s = "30"     -> <<"3", "0">>
      [] s = "31"     -> <<"3", "1">>
      [] s = "32"     -> <<"3", "2">>
      [] s = "59"     -> <<"5", "9">>
      [] s = "60"     -> <<"6", "0">>
      [] s = "99"     -> <<"9", "9">>
      [] s = "mon"    -> <<"m", "o", "n">>
      [] s = "None"   -> <<"N", "o", "n", "e">>
      [] s = "http://a.b" -> <<"h", "t", "t", "p", ":", "/", "/", "a", ".", "b">>
      [] s = "http://c.d" -> <<"h", "t", "t", "p", ":", "/", "/", "c", ".", "d">>
      [] s = "ftp://x"    -> <<"f", "t", "p", ":", "/", "/", "x">>
      [] OTHER -> UrlChars(CHOOSE u \in UrlInputs : UrlString(u) = s)

Digits == <<"0", "1", "2", "3", "4", "5", "6", "7", "8", "9">>
LowerCase == <<"a", "b", "c", "d", "e", "f", "g", "h", "i", "j", "k", "l", "m",
               "n", "o", "p", "q", "r", "s", "t", "u", "v", "w", "x", "y", "z">>
UpperCase == <<"A", "B", "C", "D", "E", "F", "G", "H", "I", "J", "K", "L", "M",
               "N", "O", "P", "Q", "R", "S", "T", "U", "V", "W", "X", "Y", "Z">>

Range(f) == {f[i] : i \in DOMAIN f}

DigitChars == Range(Digits)

\* \w of the regular expressions
WordChars == Range(Digits) \cup Range(LowerCase) \cup Range(UpperCase) \cup {"_"}

IsDigit(c) == c \in DigitChars

IsWord(c) == c \in WordChars

DigitValue(c) == (CHOOSE i \in DOMAIN Digits : Digits[i] = c) - 1

Lower(c) ==
    IF c \in Range(UpperCase)
    THEN LowerCase[CHOOSE i \in DOMAIN UpperCase : UpperCase[i] = c]
    ELSE c

\* int(s) succeeds on a non-empty string of digits
IsInt(cs) == Len(cs) > 0 /\ \A i \in DOMAIN cs : IsDigit(cs[i])

RECURSIVE ToInt(_)
ToInt(cs) ==
    IF Len(cs) = 0 THEN 0
    ELSE 10 * ToInt(SubSeq(cs, 1, Len(cs) - 1)) + DigitValue(cs[Len(cs)])

\* s.split(sep): the pieces of cs between the occurrences of sep
RECURSIVE Split(_, _)
Split(cs, sep) ==
    IF \A i \in DOMAIN cs : cs[i] # sep THEN <<cs>>
    ELSE LET k == CHOOSE i \in DOMAIN cs :
                      cs[i] = sep /\ \A j \in 1..(i - 1) : cs[j] # sep
         IN <<SubSeq(cs, 1, k - 1)>> \o Split(SubSeq(cs, k + 1, Len(cs)), sep)

\* the longest run of \w characters cs starts with
WordPrefixLen(cs) ==
    CHOOSE n \in 0..Len(cs) :
        /\ \A i \in 1..n : IsWord(cs[i])
        /\ (n < Len(cs) => ~IsWord(cs[n + 1]))


(***************************************************************************)
(* celery.schedules.crontab_parser(max_, min_).parse(spec): TRUE when the  *)
(* parse returns, FALSE when it raises ValueError or ParseException.       *)
(***************************************************************************)
WeekdayNames == {<<"s", "u", "n">>, <<"m", "o", "n">>, <<"t", "u", "e">>,
                 <<"w", "e", "d">>, <<"t", "h", "u">>, <<"f", "r", "i">>,
                 <<"s", "a", "t">>}

\* name[0:3].lower()
Abbreviation(cs) ==
    LET n == IF Len(cs) < 3 THEN Len(cs) ELSE 3
    IN [i \in 1..n |-> Lower(cs[i])]

IsWeekday(cs) == Abbreviation(cs) \in WeekdayNames

WeekdayNumber ==
    (<<"s", "u", "n">> :> 0) @@ (<<"m", "o", "n">> :> 1) @@ (<<"t", "u", "e">> :> 2) @@
    (<<"w", "e", "d">> :> 3) @@ (<<"t", "h", "u">> :> 4) @@ (<<"f", "r", "i">> :> 5) @@
    (<<"s", "a", "t">> :> 6)

weekday(cs) == WeekdayNumber[Abbreviation(cs)]

\* _expand_number(s) returns: s is a number or a weekday name inside
\* min_ .. min_ + max_ - 1
ExpandNumberOK(cs, max_, min_) ==
    /\ Len(cs) > 0
    /\ cs[1] # "-"
    /\ IsInt(cs) \/ IsWeekday(cs)
    /\ LET i == IF IsInt(cs) THEN ToInt(cs) ELSE weekday(cs)
       IN /\ i <= min_ + max_ - 1
          /\ i >= min_

\* int(s) returns and the slice step it gives is not zero
StepOK(cs) == IsInt(cs) /\ ToInt(cs) # 0

WordPrefix(cs) == SubSeq(cs, 1, WordPrefixLen(cs))

\* (\w+?)-(\w+) matched at the start of part, n1 the length of the run of \w
\* part starts with: <<the first group, the text after the dash>>, or <<>>
RangeMatchAt(part, n1) ==
    IF /\ n1 >= 1
       /\ Len(part) >= n1 + 2
       /\ part[n1 + 1] = "-"
       /\ IsWord(part[n1 + 2])
    THEN <<SubSeq(part, 1, n1), SubSeq(part, n1 + 2, Len(part))>>
    ELSE <<>>

RangeMatch(part) == RangeMatchAt(part, WordPrefixLen(part))

\* /(\w+)? matched at the start of cs: <<the group>> (empty for None), or <<>>
StepsMatch(cs) ==
    IF Len(cs) >= 1 /\ cs[1] = "/" THEN <<WordPrefix(Tail(cs))>> ELSE <<>>

\* _expand_range(toks) returns
ExpandRangeOK(w1, w2, max_, min_) ==
    ExpandNumberOK(w1, max_, min_) /\ ExpandNumberOK(w2, max_, min_)

\* the range patterns: _range_steps when the steps follow, else _expand_range
RangePartOK(w1, w2, steps, max_, min_) ==
    IF steps = <<>>
    THEN ExpandRangeOK(w1, w2, max_, min_)
    ELSE /\ Len(steps[1]) > 0
         /\ ExpandRangeOK(w1, w2, max_, min_)
         /\ StepOK(steps[1])

RangeTailOK(w1, afterDash, n2, max_, min_) ==
    RangePartOK(w1, SubSeq(afterDash, 1, n2),
                StepsMatch(SubSeq(afterDash, n2 + 1, Len(afterDash))), max_, min_)

\* _star_steps(toks) returns
StarStepsOK(steps) == Len(steps[1]) > 0 /\ StepOK(steps[1])

\* the star patterns, then a single number
OtherPartOK(part, steps, max_, min_) ==
    IF part[1] = "*" /\ steps # <<>> THEN StarStepsOK(steps)
    ELSE IF part = <<"*">> THEN TRUE
    ELSE ExpandNumberOK(part, max_, min_)

ParsePartWith(part, m, max_, min_) ==
    IF m # <<>>
    THEN RangeTailOK(m[1], m[2], WordPrefixLen(m[2]), max_, min_)
    ELSE OtherPartOK(part, StepsMatch(Tail(part)), max_, min_)

\* _parse_part(part): the four patterns in order, each matched at the start
\* of the part, then a single number
ParsePartOK(part, max_, min_) == ParsePartWith(part, RangeMatch(part), max_, min_)

crontab_parse_ok(spec, max_, min_) ==
    LET parts == Split(Chars(spec), ",")
    IN \A i \in DOMAIN parts :
           /\ Len(parts[i]) > 0
           /\ ParsePartOK(parts[i], max_, min_)

(***************************************************************************)
(* check_cron(crontab): the error list, one try block per field            *)
(***************************************************************************)
check_cron_first_error_only(crontab) ==
    CASE ~crontab_parse_ok(crontab["minute"], 60, 0) -> <<"Error in Value: Minute">>
      [] ~crontab_parse_ok(crontab["hour"], 24, 0) -> <<"Error in Value: Hour">>
      [] ~crontab_parse_ok(crontab["day_of_week"], 7, 0) -> <<"Error in Value: Day of Week">>
      [] ~crontab_parse_ok(crontab["day_of_month"], 31, 1) -> <<"Error in Value: Day of Month">>
      [] ~crontab_parse_ok(crontab["month_of_year"], 12, 1) -> <<"Error in Value: Month of Year">>
      [] OTHER -> <<>>

check_cron_day_of_month_from_zero(crontab) ==
    LET e0 == <<>>
        e1 == IF crontab_parse_ok(crontab["minute"], 60, 0)
              THEN e0 ELSE Append(e0, "Error in Value: Minute")
        e2 == IF crontab_parse_ok(crontab["hour"], 24, 0)
              THEN e1 ELSE Append(e1, "Error in Value: Hour")
        e3 == IF crontab_parse_ok(crontab["day_of_week"], 7, 0)
              THEN e2 ELSE Append(e2, "Error in Value: Day of Week")
        e4 == IF crontab_parse_ok(crontab["day_of_month"], 31, 0)
              THEN e3 ELSE Append(e3, "Error in Value: Day of Month")
        e5 == IF crontab_parse_ok(crontab["month_of_year"], 12, 1)
              THEN e4 ELSE Append(e4, "Error in Value: Month of Year")
    IN e5

check_cron(crontab) ==
    LET e0 == <<>>
        e1 == IF crontab_parse_ok(crontab["minute"], 60, 0)
              THEN e0 ELSE Append(e0, "Error in Value: Minute")
        e2 == IF crontab_parse_ok(crontab["hour"], 24, 0)
              THEN e1 ELSE Append(e1, "Error in Value: Hour")
        e3 == IF crontab_parse_ok(crontab["day_of_week"], 7, 0)
              THEN e2 ELSE Append(e2, "Error in Value: Day of Week")
        e4 == IF crontab_parse_ok(crontab["day_of_month"], 31, 1)
              THEN e3 ELSE Append(e3, "Error in Value: Day of Month")
        e5 == IF crontab_parse_ok(crontab["month_of_year"], 12, 1)
              THEN e4 ELSE Append(e4, "Error in Value: Month of Year")
    IN e5

(***************************************************************************)
(* _check_site_url(url): regex.match(url) is not None, for                 *)
(*   ^((http|https)://(localhost|label(\.label)+)(:\d+)?) | (ipv4(/cidr)?)$ *)
(* The first alternative is anchored at the start only, so it matches when *)
(* a prefix of the url has its form; the second must match the whole url.  *)
(***************************************************************************)
StartsWith(cs, prefix) ==
    Len(cs) >= Len(prefix) /\ SubSeq(cs, 1, Len(prefix)) = prefix

\* [a-z0-9]
IsLabelStart(c) == c \in Range(Digits) \cup Range(LowerCase)

\* [-a-z0-9]
IsLabelChar(c) == c = "-" \/ IsLabelStart(c)

\* the length of the longest match of [a-z0-9][-a-z0-9]* at the start of cs
LabelLen(cs) ==
    IF Len(cs) = 0 \/ ~IsLabelStart(cs[1]) THEN 0
    ELSE CHOOSE n \in 1..Len(cs) :
             /\ \A i \in 1..n : IsLabelChar(cs[i])
             /\ (n < Len(cs) => ~IsLabelChar(cs[n + 1]))

\* (http|https):// at the start of cs: the length matched, 0 for no match
SchemeLen(cs) ==
    IF StartsWith(cs, <<"h", "t", "t", "p", ":", "/", "/">>) THEN 7
    ELSE IF StartsWith(cs, <<"h", "t", "t", "p", "s", ":", "/", "/">>) THEN 8
    ELSE 0

\* (localhost|label(\.label)+) matches at the start of cs, n the length of
\* its first label
HostMatchesAt(cs, n) ==
    \/ StartsWith(cs, <<"l", "o", "c", "a", "l", "h", "o", "s", "t">>)
    \/ /\ n >= 1
       /\ Len(cs) >= n + 2
       /\ cs[n + 1] = "."
       /\ IsLabelStart(cs[n + 2])

HostMatches(cs) == HostMatchesAt(cs, LabelLen(cs))

SchemeHostMatchesAt(cs, n) ==
    n > 0 /\ HostMatches(SubSeq(cs, n + 1, Len(cs)))

\* the first alternative; the optional port adds nothing to a prefix match
SchemeHostMatches(cs) == SchemeHostMatchesAt(cs, SchemeLen(cs))

\* [0-9]|[1-9][0-9]|1[0-9]{2}|2[0-4][0-9]|25[0-5]
IsOctet(cs) ==
    /\ IsInt(cs)
    /\ Len(cs) <= 3
    /\ Len(cs) = 1 \/ cs[1] # "0"
    /\ ToInt(cs) <= 255

\* \d|[1-2]\d|3[0-2]
IsCidrSuffix(cs) ==
    /\ IsInt(cs)
    /\ Len(cs) <= 2
    /\ Len(cs) = 1 \/ cs[1] \in {"1", "2", "3"}
    /\ ToInt(cs) <= 32

IsDottedQuad(cs) ==
    LET octets == Split(cs, ".")
    IN Len(octets) = 4 /\ \A i \in 1..4 : IsOctet(octets[i])

\* the second alternative, on the whole url split at its slashes
Ipv4Matches(pieces) ==
    /\ Len(pieces) \in {1, 2}
    /\ IsDottedQuad(pieces[1])
    /\ Len(pieces) = 2 => IsCidrSuffix(pieces[2])

check_site_url(url) ==
    SchemeHostMatches(Chars(url)) \/ Ipv4Matches(Split(Chars(url), "/"))

(***************************************************************************)
(* Python dictionaries (JSON objects) are functions on their keys          *)
(***************************************************************************)
\* d.get(k)
Get(d, k) == IF k \in DOMAIN d THEN d[k] ELSE None

\* str(v) of a string or None
Str(v) == IF v = None THEN "None" ELSE v

(***************************************************************************)
(* A Mongo collection without a unique index is a bag of documents.  Where *)
(* several documents match, the one find_one returns or update changes is  *)
(* any of them.                                                            *)
(***************************************************************************)
\* the documents a query {"site": site, "plan": plan} selects
Matching(coll, site, plan) == {d \in BagToSet(coll) : d.site = site /\ d.plan = plan}

\* collection.find_one(query): the possible results, {} for None
FindOne(coll, site, plan) ==
    IF Matching(coll, site, plan) = {} THEN {{}}
    ELSE {{d} : d \in Matching(coll, site, plan)}

\* collection.insert(doc)
Insert(coll, doc) == coll (+) SetToBag({doc})

\* collection.update(query, {'$set': ...}): the possible results
\* updated[d] is the document d with the $set applied
UpdateOne(coll, site, plan, updated) ==
    IF Matching(coll, site, plan) = {} THEN {coll}
    ELSE {(coll (-) SetToBag({d})) (+) SetToBag({updated[d]}) :
              d \in Matching(coll, site, plan)}

\* collection.remove(query)
Remove(coll, site, plan) ==
    LET keep == BagToSet(coll) \ Matching(coll, site, plan)
    IN [d \in keep |-> coll[d]]

\* the number of documents of the collection that match
Count(coll, site, plan) ==
    LET m == Matching(coll, site, plan)
    IN BagCardinality([d \in m |-> coll[d]])

(***************************************************************************)
(* POST /scanschedule                                                      *)
(***************************************************************************)
CronValid1 == [minute |-> "*/5", hour |-> "5", dayOfWeek |-> "*",
               dayOfMonth |-> "15", monthOfYear |-> "*"]
CronValid2 == [minute |-> "30", hour |-> "1-3", dayOfWeek |-> "1,3,5",
               dayOfMonth |-> "1", monthOfYear |-> "12"]
\* two fields out of range
CronInvalid1 == [minute |-> "99", hour |-> "5", dayOfWeek |-> "*",
                 dayOfMonth |-> "15", monthOfYear |-> "13"]
\* a field left out of the request
CronInvalid2 == [minute |-> "*/5", dayOfWeek |-> "*",
                 dayOfMonth |-> "15", monthOfYear |-> "*"]

Crons == {CronValid1, CronValid2, CronInvalid1, CronInvalid2}

\* the request's schedule object, with and without the remove key
Schedules == Crons \cup {c @@ [remove |-> r] : c \in Crons, r \in BOOLEAN}

\* the (site, plan) keys of the requests: two plans of one site, one plan of
\* two sites
ScheduleKeys == {<<"http://a.b", "basic">>, <<"http://a.b", "nmap">>,
                 <<"http://c.d", "basic">>}

ScheduleRequests ==
    {[target |-> k[1], plan |-> k[2], schedule |-> s] : k \in ScheduleKeys, s \in Schedules}

\* lines 372-378
RequestCrontab(schedule) ==
    [minute        |-> Str(Get(schedule, "minute")),
     hour          |-> Str(Get(schedule, "hour")),
     day_of_week   |-> Str(Get(schedule, "dayOfWeek")),
     day_of_month  |-> Str(Get(schedule, "dayOfMonth")),
     month_of_year |-> Str(Get(schedule, "monthOfYear"))]

RequestEnabled_whatever_the_flag(schedule) == TRUE

\* lines 357-370: removeSite = schedule.get('remove'); enabled is False when
\* removeSite is not None
RequestEnabled(schedule) == ~("remove" \in DOMAIN schedule)

RequestMessage(schedule, target) ==
    IF "remove" \in DOMAIN schedule
    THEN "Removed Schedule for: " \o target
    ELSE "Scheduled Scan successfully set for site: " \o target

\* lines 386-398
ScheduleData(target, plan, enabled, crontab) ==
    [cls         |-> "PeriodicTask",
     task        |-> "minion.backend.tasks.run_scheduled_scan",
     args        |-> <<target, plan>>,
     site        |-> target,
     queue       |-> "scanschedule",
     routing_key |-> "scanschedule",
     exchange    |-> "",
     plan        |-> plan,
     name        |-> target \o ":" \o plan,
     enabled     |-> enabled,
     crontab     |-> crontab]

\* History: how a request follows the worker's previous request.  "same": the
\* previous request was this one and succeeded; "remove_after_same": the
\* previous request was a "same" one and this one adds remove=true to it;
\* "update_of_created": the previous request created the site this one
\* updates (prev is that request).
Follows(w, request) ==
    IF pc[w] = "done" /\ resp[w].status = "200" /\ resp[w].success = TRUE
    THEN CASE request = req[w] -> [rel |-> "same"]
           [] /\ request.op = "scanschedule"
              /\ req[w].op = "scanschedule"
              /\ follows[w].rel = "same"
              /\ ~("remove" \in DOMAIN req[w].json.schedule)
              /\ request.json = [req[w].json EXCEPT
                                    !.schedule = req[w].json.schedule @@ [remove |-> TRUE]]
              -> [rel |-> "remove_after_same"]
           [] /\ request.op = "update_site"
              /\ req[w].op = "create_site"
              /\ request.site_id = resp[w].site.id
              -> [rel |-> "update_of_created", prev |-> req[w].json]
           [] OTHER -> [rel |-> "other"]
    ELSE [rel |-> "other"]

crontab_rejected_never(crontab_errors) == FALSE

\* line 382: if crontab_errors
crontab_rejected(crontab_errors) == crontab_errors # <<>>

\* lines 350-401: everything up to the find_one
scanschedule(w, json) ==
    /\ pc[w] \in {"idle", "done"}
    /\ LET schedule == json.schedule
           plan == json.plan
           target == json.target
           enabled == RequestEnabled(schedule)
           message == RequestMessage(schedule, target)
           crontab == RequestCrontab(schedule)
           crontab_errors == check_cron(crontab)
       IN /\ req' = [req EXCEPT ![w] = [op |-> "scanschedule", json |-> json]]
          /\ follows' = [follows EXCEPT ![w] =
                            Follows(w, [op |-> "scanschedule", json |-> json])]
          /\ IF crontab_rejected(crontab_errors)
             THEN /\ resp' = [resp EXCEPT ![w] =
                         [status |-> "200", message |-> "Error in crontab values",
                          success |-> FALSE, errors |-> crontab_errors]]
                  /\ loc' = [loc EXCEPT ![w] = NoLocals]
                  /\ pc' = [pc EXCEPT ![w] = "done"]
             ELSE /\ \E found \in FindOne(scanschedules, target, plan) :
                         loc' = [loc EXCEPT ![w] =
                                    [data |-> ScheduleData(target, plan, enabled, crontab),
                                     crontab |-> crontab, enabled |-> enabled,
                                     message |-> message, schedule |-> found]]
                  /\ resp' = [resp EXCEPT ![w] = NoResponse]
                  /\ pc' = [pc EXCEPT ![w] = "scanschedule_write"]
    /\ UNCHANGED <<stores, nextUuid>>

ScheduleUpsert_always_insert(coll, schedule, data) == {Insert(coll, data)}

ScheduleUpsert_hard_delete(coll, schedule, data) ==
    IF schedule = {} THEN {Insert(coll, data)}
    ELSE IF data.enabled
         THEN UpdateOne(coll, data.site, data.plan,
                   [d \in BagToSet(coll) |-> [d EXCEPT !.crontab = data.crontab,
                                                      !.enabled = data.enabled]])
         ELSE {Remove(coll, data.site, data.plan)}

ScheduleUpsert_enabled_only(coll, schedule, data) ==
    IF schedule = {} THEN {Insert(coll, data)}
    ELSE UpdateOne(coll, data.site, data.plan,
                   [d \in BagToSet(coll) |-> [d EXCEPT !.enabled = data.enabled]])

ScheduleUpsert_matching_site_only(coll, schedule, data) ==
    IF schedule = {} THEN {Insert(coll, data)}
    ELSE {(coll (-) SetToBag({d})) (+)
              SetToBag({[d EXCEPT !.crontab = data.crontab, !.enabled = data.enabled]}) :
              d \in {e \in BagToSet(coll) : e.site = data.site}}

\* lines 402-406: insert the descriptor, or $set crontab and enabled
ScheduleUpsert(coll, schedule, data) ==
    IF schedule = {} THEN {Insert(coll, data)}
    ELSE UpdateOne(coll, data.site, data.plan,
                   [d \in BagToSet(coll) |-> [d EXCEPT !.crontab = data.crontab,
                                                      !.enabled = data.enabled]])

\* lines 402-409
scanschedule_write(w) ==
    /\ pc[w] = "scanschedule_write"
    /\ scanschedules' \in ScheduleUpsert(scanschedules, loc[w].schedule, loc[w].data)
    /\ resp' = [resp EXCEPT ![w] =
                   [status |-> "200", message |-> loc[w].message, success |-> TRUE]]
    /\ pc' = [pc EXCEPT ![w] = "done"]
    /\ UNCHANGED <<sites, groups, siteCredentials, nextUuid, req, loc, follows>>

(***************************************************************************)
(* POST /sites (create_site) and POST /sites/<site_id> (update_site)       *)
(***************************************************************************)
PlanNames == {"basic", "nmap"}
GroupNames == {"A", "B", "C"}

\* the order in which a cursor over the groups collection yields them
GroupOrder == <<"A", "B", "C">>

\* str(uuid.uuid4()), the n-th value handed out
Uuid(n) == "uuid-" \o ToString(n)

\* the _id the storage layer gives the n-th inserted site document
ObjectId(n) == "oid-" \o ToString(n)

\* datetime.datetime.utcnow(): a logical clock that advances with the uuids
utcnow == [seconds |-> nextUuid]

\* calendar.timegm(created.utctimetuple())
timegm(datetime) == datetime.seconds

\* site.get(key, [])
ListOf(json, key) == IF key \in DOMAIN json THEN json[key] ELSE <<>>

\* _check_group_exists(group)
check_group_exists(group) == group \in DOMAIN groups

\* _check_plan_exists(plan_name)
check_plan_exists(plan_name) == plan_name \in PlanNames

\* _check_required_fields(expected, fields)
check_required_fields(expected, fields) == \A field \in fields : field \in DOMAIN expected

\* lines 28-30: the names of the groups whose sites hold the url
find_groups_for_site(url) ==
    SelectSeq(GroupOrder, LAMBDA g : url \in groups[g])

\* lines 32-37
sanitize_site(site) ==
    [k \in DOMAIN site \ {"_id"} |->
        IF k = "created" THEN timegm(site[k]) ELSE site[k]]

\* groups.update({'name': name}, {'$addToSet': {'sites': url}})
AddToSet(coll, name, url) ==
    IF name \in DOMAIN coll THEN [coll EXCEPT ![name] = @ \cup {url}] ELSE coll

Pull_nothing(coll, name, url) == coll

\* groups.update({'name': name}, {'$pull': {'sites': url}})
Pull(coll, name, url) ==
    IF name \in DOMAIN coll THEN [coll EXCEPT ![name] = @ \ {url}] ELSE coll

SetSiteField_every_site(coll, site_id, field, value) ==
    {[k \in DOMAIN s \cup {field} |-> IF k = field THEN value ELSE s[k]] : s \in coll}

\* sites.update({'id': site_id}, {'$set': {field: value}})
SetSiteField(coll, site_id, field, value) ==
    {IF s.id = site_id
     THEN [k \in DOMAIN s \cup {field} |-> IF k = field THEN value ELSE s[k]]
     ELSE s : s \in coll}

CreateSiteRefusal_without_url_lookup(site) ==
    IF "url" \notin DOMAIN site THEN "TypeError"
    ELSE IF ~check_site_url(site["url"]) THEN "invalid-url"
    ELSE IF \E i \in DOMAIN ListOf(site, "groups") :
                ~check_group_exists(ListOf(site, "groups")[i]) THEN "unknown-group"
    ELSE IF \E i \in DOMAIN ListOf(site, "plans") :
                ~check_plan_exists(ListOf(site, "plans")[i]) THEN "unknown-plan"
    ELSE ""

\* lines 135-146: the reason the request is refused with, "TypeError" when
\* regex.match(None) raises, "" when it is accepted
CreateSiteRefusal(site) ==
    IF "url" \notin DOMAIN site THEN "TypeError"
    ELSE IF ~check_site_url(site["url"]) THEN "invalid-url"
    ELSE IF ~check_required_fields(site, {"url"}) THEN "missing-required-field"
    ELSE IF \E i \in DOMAIN ListOf(site, "groups") :
                ~check_group_exists(ListOf(site, "groups")[i]) THEN "unknown-group"
    ELSE IF \E i \in DOMAIN ListOf(site, "plans") :
                ~check_plan_exists(ListOf(site, "plans")[i]) THEN "unknown-plan"
    ELSE IF \E s \in sites : s.url = site["url"] THEN "site-already-exists"
    ELSE ""

\* the response of a handler that returns or raises
Refused(reason) ==
    IF reason \in {"TypeError", "KeyError"}
    THEN [status |-> "500", exception |-> reason]
    ELSE [status |-> "200", success |-> FALSE, reason |-> reason]

\* site.get('verification', {}).get('enabled', False)
VerificationRequested(site) ==
    "verification" \in DOMAIN site /\ site["verification"].enabled = TRUE

\* the site records and group memberships as the request finds them
Before == [sites |-> sites, groups |-> groups]

\* lines 133-146: the checks, up to the find_one on the url
create_site(w, json) ==
    /\ pc[w] \in {"idle", "done"}
    /\ CreateSiteRefusal(json) = "" => nextUuid + 1 <= MaxUuid
    /\ LET request == [op |-> "create_site", json |-> json]
           reason == CreateSiteRefusal(json)
       IN /\ req' = [req EXCEPT ![w] = request]
          /\ follows' = [follows EXCEPT ![w] = Follows(w, request) @@ [before |-> Before]]
          /\ loc' = [loc EXCEPT ![w] = NoLocals]
          /\ IF reason # ""
             THEN /\ resp' = [resp EXCEPT ![w] = Refused(reason)]
                  /\ pc' = [pc EXCEPT ![w] = "done"]
             ELSE /\ resp' = [resp EXCEPT ![w] = NoResponse]
                  /\ pc' = [pc EXCEPT ![w] = "create_site_insert"]
    /\ UNCHANGED <<stores, nextUuid>>

create_site_insert_groups_first(w) ==
    /\ pc[w] = "create_site_insert"
    /\ nextUuid + 1 <= MaxUuid
    /\ LET site == req[w].json
           new_site ==
               [id |-> Uuid(nextUuid),
                url |-> site["url"],
                plans |-> ListOf(site, "plans"),
                created |-> utcnow,
                verification |->
                    IF VerificationRequested(site)
                    THEN [enabled |-> TRUE, value |-> Uuid(nextUuid + 1)]
                    ELSE [enabled |-> FALSE, value |-> None]]
           stored == new_site @@ ("_id" :> ObjectId(nextUuid))
       IN /\ sites' = IF ListOf(site, "groups") = <<>> THEN sites \cup {stored} ELSE sites
          /\ nextUuid' = nextUuid + (IF VerificationRequested(site) THEN 2 ELSE 1)
          /\ loc' = [loc EXCEPT ![w] =
                        [new_site |-> stored, todo |-> ListOf(site, "groups")]]
    /\ pc' = [pc EXCEPT ![w] = "create_site_groups"]
    /\ UNCHANGED <<groups, siteCredentials, scanschedules, req, resp, follows>>

\* lines 148-158: build new_site and insert it
create_site_insert(w) ==
    /\ pc[w] = "create_site_insert"
    /\ nextUuid + 1 <= MaxUuid
    /\ LET site == req[w].json
           new_site ==
               [id |-> Uuid(nextUuid),
                url |-> site["url"],
                plans |-> ListOf(site, "plans"),
                created |-> utcnow,
                verification |->
                    IF VerificationRequested(site)
                    THEN [enabled |-> TRUE, value |-> Uuid(nextUuid + 1)]
                    ELSE [enabled |-> FALSE, value |-> None]]
           stored == new_site @@ ("_id" :> ObjectId(nextUuid))
       IN /\ sites' = sites \cup {stored}
          /\ nextUuid' = nextUuid + (IF VerificationRequested(site) THEN 2 ELSE 1)
          /\ loc' = [loc EXCEPT ![w] =
                        [new_site |-> stored, todo |-> ListOf(site, "groups")]]
    /\ pc' = [pc EXCEPT ![w] = "create_site_groups"]
    /\ UNCHANGED <<groups, siteCredentials, scanschedules, req, resp, follows>>

\* lines 160-162: one pass of the loop over the requested groups
create_site_group(w) ==
    /\ pc[w] = "create_site_groups"
    /\ loc[w].todo # <<>>
    /\ groups' = AddToSet(groups, Head(loc[w].todo), req[w].json["url"])
    /\ loc' = [loc EXCEPT ![w].todo = Tail(@)]
    /\ UNCHANGED <<sites, siteCredentials, scanschedules, nextUuid, pc, req, resp, follows>>

\* lines 163-165
create_site_return(w) ==
    /\ pc[w] = "create_site_groups"
    /\ loc[w].todo = <<>>
    /\ resp' = [resp EXCEPT ![w] =
                   [status |-> "200", success |-> TRUE,
                    site |-> sanitize_site(
                                 loc[w].new_site @@
                                     [groups |-> ListOf(req[w].json, "groups")])]]
    /\ pc' = [pc EXCEPT ![w] = "done"]
    /\ UNCHANGED <<stores, nextUuid, req, loc, follows>>

\* lines 198-202: find_one on the id
update_site(w, site_id, json) ==
    /\ pc[w] \in {"idle", "done"}
    /\ LET request == [op |-> "update_site", site_id |-> site_id, json |-> json]
           found == {s \in sites : s.id = site_id}
       IN /\ req' = [req EXCEPT ![w] = request]
          /\ follows' = [follows EXCEPT ![w] = Follows(w, request) @@ [before |-> Before]]
          /\ IF found = {}
             THEN /\ resp' = [resp EXCEPT ![w] = Refused("no-such-site")]
                  /\ loc' = [loc EXCEPT ![w] = NoLocals]
                  /\ pc' = [pc EXCEPT ![w] = "done"]
             ELSE /\ \E site \in found : loc' = [loc EXCEPT ![w] = [site |-> site]]
                  /\ resp' = [resp EXCEPT ![w] = NoResponse]
                  /\ pc' = [pc EXCEPT ![w] = "update_site_find_groups"]
    /\ UNCHANGED <<stores, nextUuid>>

\* lines 204-209: the reason the update is refused with, "" when it is not
UpdateSiteRefusal(new_site) ==
    IF \E i \in DOMAIN ListOf(new_site, "groups") :
           ~check_group_exists(ListOf(new_site, "groups")[i]) THEN "unknown-group"
    ELSE IF \E i \in DOMAIN ListOf(new_site, "plans") :
                ~check_plan_exists(ListOf(new_site, "plans")[i]) THEN "unknown-plan"
    ELSE ""

GroupWrites(kind, names) == [i \in DOMAIN names |-> [kind |-> kind, name |-> names[i]]]

GroupUpdates_absent_as_empty(new_site, site_groups) ==
    GroupWrites("addToSet",
        SelectSeq(ListOf(new_site, "groups"),
            LAMBDA g : \A i \in DOMAIN site_groups : site_groups[i] # g))
    \o GroupWrites("pull",
        SelectSeq(site_groups,
            LAMBDA g : \A i \in DOMAIN ListOf(new_site, "groups") :
                           ListOf(new_site, "groups")[i] # g))

GroupUpdates_pulls_all_old(new_site, site_groups) ==
    IF "groups" \in DOMAIN new_site
    THEN GroupWrites("addToSet",
             SelectSeq(new_site["groups"],
                 LAMBDA g : \A i \in DOMAIN site_groups : site_groups[i] # g))
         \o GroupWrites("pull", site_groups)
    ELSE <<>>

\* lines 210-218: the group writes of the update, in the order they are issued
GroupUpdates(new_site, site_groups) ==
    IF "groups" \in DOMAIN new_site
    THEN GroupWrites("addToSet",
             SelectSeq(new_site["groups"],
                 LAMBDA g : \A i \in DOMAIN site_groups : site_groups[i] # g))
         \o GroupWrites("pull",
             SelectSeq(site_groups,
                 LAMBDA g : \A i \in DOMAIN new_site["groups"] : new_site["groups"][i] # g))
    ELSE <<>>

update_site_find_groups_writing_as_it_checks(w) ==
    /\ pc[w] = "update_site_find_groups"
    /\ LET new_site == req[w].json
           site_groups == find_groups_for_site(loc[w].site.url)
           reason == UpdateSiteRefusal(new_site)
       IN IF reason # ""
          THEN /\ resp' = [resp EXCEPT ![w] = Refused(reason)]
               /\ pc' = [pc EXCEPT ![w] = "done"]
               /\ groups' = IF ListOf(new_site, "groups") # <<>>
                            THEN AddToSet(groups, Head(new_site["groups"]), loc[w].site.url)
                            ELSE groups
               /\ UNCHANGED loc
          ELSE /\ loc' = [loc EXCEPT ![w] =
                             [site |-> loc[w].site, site_groups |-> site_groups,
                              todo |-> GroupUpdates(new_site, site_groups)]]
               /\ pc' = [pc EXCEPT ![w] = "update_site_groups"]
               /\ UNCHANGED <<resp, groups>>
    /\ UNCHANGED <<sites, siteCredentials, scanschedules, nextUuid, req, follows>>

\* lines 203-218: derive the site's groups, check the request, plan the writes
update_site_find_groups(w) ==
    /\ pc[w] = "update_site_find_groups"
    /\ LET new_site == req[w].json
           site_groups == find_groups_for_site(loc[w].site.url)
           reason == UpdateSiteRefusal(new_site)
       IN IF reason # ""
          THEN /\ resp' = [resp EXCEPT ![w] = Refused(reason)]
               /\ pc' = [pc EXCEPT ![w] = "done"]
               /\ UNCHANGED loc
          ELSE /\ loc' = [loc EXCEPT ![w] =
                             [site |-> loc[w].site, site_groups |-> site_groups,
                              todo |-> GroupUpdates(new_site, site_groups)]]
               /\ pc' = [pc EXCEPT ![w] = "update_site_groups"]
               /\ UNCHANGED resp
    /\ UNCHANGED <<stores, nextUuid, req, follows>>

\* lines 213-214 and 217-218: one groups.update of the two loops
update_site_group(w) ==
    /\ pc[w] = "update_site_groups"
    /\ loc[w].todo # <<>>
    /\ LET write == Head(loc[w].todo)
       IN groups' = IF write.kind = "addToSet"
                    THEN AddToSet(groups, write.name, loc[w].site.url)
                    ELSE Pull(groups, write.name, loc[w].site.url)
    /\ loc' = [loc EXCEPT ![w].todo = Tail(@)]
    /\ UNCHANGED <<sites, siteCredentials, scanschedules, nextUuid, pc, req, resp, follows>>

\* lines 220-222
update_site_plans(w) ==
    /\ pc[w] = "update_site_groups"
    /\ loc[w].todo = <<>>
    /\ sites' = IF "plans" \in DOMAIN req[w].json
                THEN SetSiteField(sites, req[w].site_id, "plans", req[w].json["plans"])
                ELSE sites
    /\ pc' = [pc EXCEPT ![w] = "update_site_verification"]
    /\ UNCHANGED <<groups, siteCredentials, scanschedules, nextUuid, req, loc, resp, follows>>

VerificationChanges_only_when_absent(site, new_verification) ==
    "verification" \notin DOMAIN site

\* line 227: not old_verification or old_verification['enabled'] != new_verification['enabled']
VerificationChanges(site, new_verification) ==
    \/ "verification" \notin DOMAIN site
    \/ site["verification"].enabled # new_verification.enabled

\* lines 224-234: new_site['verification'] raises KeyError when the key is absent
update_site_verification(w) ==
    /\ pc[w] = "update_site_verification"
    /\ IF "verification" \notin DOMAIN req[w].json
       THEN /\ resp' = [resp EXCEPT ![w] = Refused("KeyError")]
            /\ pc' = [pc EXCEPT ![w] = "done"]
            /\ UNCHANGED <<sites, nextUuid>>
       ELSE /\ IF VerificationChanges(loc[w].site, req[w].json["verification"])
               THEN /\ nextUuid <= MaxUuid
                    /\ sites' = SetSiteField(sites, req[w].site_id, "verification",
                                    [enabled |-> req[w].json["verification"].enabled,
                                     value |-> Uuid(nextUuid)])
                    /\ nextUuid' = nextUuid + 1
               ELSE UNCHANGED <<sites, nextUuid>>
            /\ pc' = [pc EXCEPT ![w] = "update_site_reread"]
            /\ UNCHANGED resp
    /\ UNCHANGED <<groups, siteCredentials, scanschedules, req, loc, follows>>

\* lines 237-239
update_site_reread(w) ==
    /\ pc[w] = "update_site_reread"
    /\ LET found == {s \in sites : s.id = req[w].site_id}
       IN IF found = {}
          THEN /\ resp' = [resp EXCEPT ![w] = Refused("no-such-site")]
               /\ pc' = [pc EXCEPT ![w] = "done"]
               /\ UNCHANGED loc
          ELSE /\ \E site \in found : loc' = [loc EXCEPT ![w] = [site |-> site]]
               /\ pc' = [pc EXCEPT ![w] = "update_site_return"]
               /\ UNCHANGED resp
    /\ UNCHANGED <<stores, nextUuid, req, follows>>

\* lines 240-241
update_site_return(w) ==
    /\ pc[w] = "update_site_return"
    /\ resp' = [resp EXCEPT ![w] =
                   [status |-> "200", success |-> TRUE,
                    site |-> sanitize_site(
                                 loc[w].site @@
                                     [groups |-> find_groups_for_site(loc[w].site.url)])]]
    /\ pc' = [pc EXCEPT ![w] = "done"]
    /\ UNCHANGED <<stores, nextUuid, req, loc, follows>>

\* request bodies of POST /sites
Verified == [verification |-> [enabled |-> TRUE]]

CreateRequests ==
    {[url |-> "http://a.b", groups |-> <<"A", "B">>, plans |-> <<"basic">>],
     [url |-> "http://a.b", groups |-> <<"C">>, plans |-> <<"nmap">>] @@ Verified,
     [url |-> "http://c.d", groups |-> <<"B">>, plans |-> <<"basic">>]}
    \cup {[url |-> "http://c.d"],
          [url |-> "ftp://x", groups |-> <<"A">>],
          [groups |-> <<"A">>, plans |-> <<"basic">>],
          [url |-> "http://a.b", groups |-> <<"A", "D">>],
          [url |-> "http://a.b", groups |-> <<"C">>, plans |-> <<"basic", "nope">>]}

\* request bodies of POST /sites/<site_id>
UpdateRequests ==
    {[groups |-> <<"B", "C">>] @@ Verified,
     [groups |-> <<"B", "C">>, plans |-> <<"nmap">>],
     [groups |-> <<>>, verification |-> [enabled |-> FALSE]],
     [groups |-> <<>>],
     [plans |-> <<"nmap">>] @@ Verified,
     [verification |-> [enabled |-> FALSE]],
     [plans |-> <<>>],
     [groups |-> <<"C", "D">>, plans |-> <<"nmap">>] @@ Verified,
     [groups |-> <<"C">>, plans |-> <<"nmap", "nope">>] @@ Verified}

SiteIds == {s.id : s \in sites} \cup {"no-such-id"}

(***************************************************************************)
(* POST /setCredentials and GET /credInfo                                  *)
(***************************************************************************)
\* the authData fields setCredentials always overwrites (lines 322-334)
OtherAuthFields ==
    {"method", "url", "email", "before_login_element_xpath", "login_button_xpath",
     "login_script", "after_login_element_xpath", "username",
     "username_field_xpath", "password_field_xpath", "expected_cookies"}

AuthFull(v) == [f \in OtherAuthFields |-> v]

\* the same without the email key
AuthNoEmail(v) == [f \in OtherAuthFields \ {"email"} |-> v]

AuthDatas ==
    {AuthFull("v1"),
     AuthFull("v1") @@ [password |-> ""],
     AuthFull("v1") @@ [password |-> "pw1"],
     AuthFull("v1") @@ [password |-> "", remove |-> FALSE],
     AuthNoEmail("v2"),
     AuthNoEmail("v2") @@ [password |-> "pw2"],
     [remove |-> TRUE],
     AuthFull("v1") @@ [password |-> "pw1", remove |-> TRUE]}

CredentialRequests ==
    {[site |-> k[1], plan |-> k[2], authData |-> a] :
         k \in {<<"http://a.b", "basic">>, <<"http://a.b", "nmap">>}, a \in AuthDatas}
    \cup
    {[site |-> "http://c.d", plan |-> "basic", authData |-> a] :
         a \in {AuthFull("v1") @@ [password |-> "pw1"], [remove |-> TRUE]}}

\* authData.get('remove') is truthy
RemoveRequested(authData) == "remove" \in DOMAIN authData /\ authData["remove"] = TRUE

\* password = authData.get('password') is truthy
PasswordGiven(authData) == Get(authData, "password") \notin {None, ""}

CredentialUpdate_sets_password_always(old, authData) ==
    [k \in DOMAIN old \cup OtherAuthFields \cup {"password"} |->
        IF k \in OtherAuthFields THEN Get(authData, k)
        ELSE IF k = "password" THEN Get(authData, "password")
        ELSE old[k]]

\* lines 322-343: the stored authData after
\* $set {'authData.<field>': authData.get(<field>), ...} and, for a non-blank
\* password, 'authData.password'
CredentialUpdate(old, authData) ==
    [k \in DOMAIN old \cup OtherAuthFields
            \cup (IF PasswordGiven(authData) THEN {"password"} ELSE {}) |->
        IF k \in OtherAuthFields THEN Get(authData, k)
        ELSE IF k = "password" /\ PasswordGiven(authData) THEN authData["password"]
        ELSE old[k]]

\* lines 300-317: the removal, or everything up to the find_one
setCredentials(w, json) ==
    /\ pc[w] \in {"idle", "done"}
    /\ LET site == json.site
           plan == json.plan
           authData == json.authData
           request == [op |-> "setCredentials", json |-> json]
       IN /\ req' = [req EXCEPT ![w] = request]
          /\ follows' = [follows EXCEPT ![w] = Follows(w, request)]
          /\ IF RemoveRequested(authData)
             THEN /\ siteCredentials' =
                         Remove(siteCredentials, site, plan)
                  /\ resp' = [resp EXCEPT ![w] =
                                 [status |-> "200", message |-> "Removed Site Credentials",
                                  success |-> TRUE]]
                  /\ loc' = [loc EXCEPT ![w] = NoLocals]
                  /\ pc' = [pc EXCEPT ![w] = "done"]
             ELSE /\ \E found \in FindOne(siteCredentials, site, plan) :
                         loc' = [loc EXCEPT ![w] =
                                    [data |-> [site |-> site, plan |-> plan,
                                               authData |-> authData],
                                     siteCreds |-> found]]
                  /\ siteCredentials' = siteCredentials
                  /\ resp' = [resp EXCEPT ![w] = NoResponse]
                  /\ pc' = [pc EXCEPT ![w] = "setCredentials_write"]
    /\ UNCHANGED <<sites, groups, scanschedules, nextUuid>>

\* lines 318-345: insert the document, or $set the fields of the stored one
setCredentials_write(w) ==
    /\ pc[w] = "setCredentials_write"
    /\ LET data == loc[w].data
       IN IF loc[w].siteCreds = {}
          THEN siteCredentials' = Insert(siteCredentials, data)
          ELSE siteCredentials' \in
                   UpdateOne(siteCredentials, data.site, data.plan,
                             [d \in BagToSet(siteCredentials) |->
                                 [d EXCEPT !.authData =
                                      CredentialUpdate(d.authData, data.authData)]])
    /\ resp' = [resp EXCEPT ![w] =
                   [status |-> "200", message |-> "Added Site Credentials",
                    success |-> TRUE]]
    /\ pc' = [pc EXCEPT ![w] = "done"]
    /\ UNCHANGED <<sites, groups, scanschedules, nextUuid, req, loc, follows>>

MaskedAuthData_unmasked(authData) == authData

\* line 287: data['authData']['password'] = ""
MaskedAuthData(authData) ==
    [k \in DOMAIN authData \cup {"password"} |->
        IF k = "password" THEN "" ELSE authData[k]]

\* lines 279-291: the entry of one stored document
CredInfoEntry(d) ==
    [site |-> d.site, plan |-> d.plan, authData |-> MaskedAuthData(d.authData)]

\* lines 276-291: site -> plan -> entry; of several documents with one
\* (site, plan) the one the cursor yields last stays
CredInfos(coll) ==
    LET docs == BagToSet(coll)
        keys == {<<d.site, d.plan>> : d \in docs}
        picks == {f \in [keys -> docs] :
                      \A k \in keys : f[k].site = k[1] /\ f[k].plan = k[2]}
    IN {[s \in {k[1] : k \in keys} |->
            [p \in {k[2] : k \in {x \in keys : x[1] = s}} |->
                CredInfoEntry(f[<<s, p>>])]] : f \in picks}

\* lines 275-294
get_credInfo(w) ==
    /\ pc[w] \in {"idle", "done"}
    /\ req' = [req EXCEPT ![w] = [op |-> "get_credInfo"]]
    /\ follows' = [follows EXCEPT ![w] = [rel |-> "other"]]
    /\ \E credInfo \in CredInfos(siteCredentials) :
           resp' = [resp EXCEPT ![w] =
                       [status |-> "200", success |-> TRUE, credInfo |-> credInfo]]
    /\ loc' = [loc EXCEPT ![w] = NoLocals]
    /\ pc' = [pc EXCEPT ![w] = "done"]
    /\ UNCHANGED <<stores, nextUuid>>

(***************************************************************************)
(* Specifications                                                          *)
(***************************************************************************)
Init ==
    /\ sites = {}
    /\ groups = [g \in GroupNames |-> {}]
    /\ siteCredentials = EmptyBag
    /\ scanschedules = EmptyBag
    /\ nextUuid = 1
    /\ pc = [w \in Workers |-> "idle"]
    /\ req = [w \in Workers |-> NoRequest]
    /\ loc = [w \in Workers |-> NoLocals]
    /\ resp = [w \in Workers |-> NoResponse]
    /\ follows = [w \in Workers |-> [rel |-> "other"]]

\* the schedule engine, one request at a time
NextSched ==
    \/ \E json \in ScheduleRequests : scanschedule(W1, json)
    \/ scanschedule_write(W1)

SpecSched == Init /\ [][NextSched]_vars

\* request bodies of the concurrent schedule clients: one (site, plan) key
ConcScheduleRequests ==
    {[target |-> "http://a.b", plan |-> "basic", schedule |-> s] :
         s \in {CronValid1, CronValid2, CronValid1 @@ [remove |-> TRUE], CronInvalid1}}

NextSchedConc ==
    \E w \in Workers :
        \/ \E json \in ConcScheduleRequests : scanschedule(w, json)
        \/ scanschedule_write(w)

\* two clients of the schedule engine, interleaving at every storage access
SpecSchedConc == Init /\ [][NextSchedConc]_vars

\* the credential store, one request at a time
NextCred ==
    \/ \E json \in CredentialRequests : setCredentials(W1, json)
    \/ setCredentials_write(W1)
    \/ get_credInfo(W1)

SpecCred == Init /\ [][NextCred]_vars

(***************************************************************************)
(* check_cron as a function of its input: every crontab over these field   *)
(* values is an initial state, and the one action applies check_cron.      *)
(***************************************************************************)
MinuteValues == {"0", "59", "60", "*/5", "99", "None", "1,,5", "-1"}
HourValues == {"0", "5", "23", "24", "1-3/"}
DayOfWeekValues == {"0", "6", "7", "*", "mon"}
DayOfMonthValues == {"0", "1", "31", "32", "1-3/2"}
MonthOfYearValues == {"0", "1", "12", "13", "*/0"}

CronInputs ==
    [minute : MinuteValues, hour : HourValues, day_of_week : DayOfWeekValues,
     day_of_month : DayOfMonthValues, month_of_year : MonthOfYearValues]

NextSite ==
    \/ \E json \in CreateRequests : create_site(W1, json)
    \/ create_site_insert(W1)
    \/ create_site_group(W1)
    \/ create_site_return(W1)
    \/ \E site_id \in SiteIds, json \in UpdateRequests : update_site(W1, site_id, json)
    \/ update_site_find_groups(W1)
    \/ update_site_group(W1)
    \/ update_site_plans(W1)
    \/ update_site_verification(W1)
    \/ update_site_reread(W1)
    \/ update_site_return(W1)

\* requests served one at a time
SpecSite == Init /\ [][NextSite]_vars

\* request bodies of the concurrent clients
ConcCreateRequests ==
    {[url |-> "http://a.b", groups |-> <<"A", "B">>, plans |-> <<"basic">>] @@ Verified,
     [url |-> "http://a.b", groups |-> <<"C">>, plans |-> <<"nmap">>] @@ Verified}

ConcUpdateRequests ==
    {[groups |-> <<"B", "C">>] @@ Verified}

NextSiteConc ==
    \E w \in Workers :
        \/ \E json \in ConcCreateRequests : create_site(w, json)
        \/ create_site_insert(w)
        \/ create_site_group(w)
        \/ create_site_return(w)
        \/ \E site_id \in SiteIds, json \in ConcUpdateRequests : update_site(w, site_id, json)
        \/ update_site_find_groups(w)
        \/ update_site_group(w)
        \/ update_site_plans(w)
        \/ update_site_verification(w)
        \/ update_site_reread(w)
        \/ update_site_return(w)

\* two clients whose requests interleave at every storage access
SpecSiteConc == Init /\ [][NextSiteConc]_vars

\* request bodies of two clients that update one site
RegroupCreateRequests ==
    {[url |-> "http://a.b", groups |-> <<"A", "B">>, plans |-> <<"basic">>] @@ Verified}

RegroupUpdateRequests ==
    {[groups |-> <<"B", "C">>] @@ Verified, [groups |-> <<"A">>] @@ Verified}

\* the site is created by the first client; both clients update it
NextRegroup ==
    \/ \E json \in RegroupCreateRequests : create_site(W1, json)
    \/ create_site_insert(W1)
    \/ create_site_group(W1)
    \/ create_site_return(W1)
    \/ \E w \in Workers :
        \/ \E site_id \in SiteIds, json \in RegroupUpdateRequests : update_site(w, site_id, json)
        \/ update_site_find_groups(w)
        \/ update_site_group(w)
        \/ update_site_plans(w)
        \/ update_site_verification(w)
        \/ update_site_reread(w)
        \/ update_site_return(w)

\* two clients regrouping a site, interleaving at every storage access
SpecRegroup == Init /\ [][NextRegroup]_vars

InitCron ==
    /\ sites = {}
    /\ groups = [g \in GroupNames |-> {}]
    /\ siteCredentials = EmptyBag
    /\ scanschedules = EmptyBag
    /\ nextUuid = 1
    /\ pc = [w \in Workers |-> IF w = W1 THEN "check_cron" ELSE "idle"]
    /\ \E crontab \in CronInputs :
           req = [w \in Workers |->
                     IF w = W1 THEN [op |-> "check_cron", crontab |-> crontab]
                     ELSE NoRequest]
    /\ loc = [w \in Workers |-> NoLocals]
    /\ resp = [w \in Workers |-> NoResponse]
    /\ follows = [w \in Workers |-> [rel |-> "other"]]

\* a call of check_cron(crontab) and its return value
check_cron_call(w) ==
    /\ pc[w] = "check_cron"
    /\ resp' = [resp EXCEPT ![w] =
                   [status |-> "returned", cron_errors |-> check_cron(req[w].crontab)]]
    /\ pc' = [pc EXCEPT ![w] = "done"]
    /\ UNCHANGED <<stores, nextUuid, req, loc, follows>>

NextCron == check_cron_call(W1)

SpecCron == InitCron /\ [][NextCron]_vars

InitUrl ==
    /\ sites = {}
    /\ groups = [g \in GroupNames |-> {}]
    /\ siteCredentials = EmptyBag
    /\ scanschedules = EmptyBag
    /\ nextUuid = 1
    /\ pc = [w \in Workers |-> IF w = W1 THEN "check_site_url" ELSE "idle"]
    /\ \E u \in UrlInputs :
           req = [w \in Workers |->
                     IF w = W1
                     THEN [op |-> "check_site_url", url |-> UrlString(u), parts |-> u]
                     ELSE NoRequest]
    /\ loc = [w \in Workers |-> NoLocals]
    /\ resp = [w \in Workers |-> NoResponse]
    /\ follows = [w \in Workers |-> [rel |-> "other"]]

\* a call of _check_site_url(url) and its return value
check_site_url_call(w) ==
    /\ pc[w] = "check_site_url"
    /\ resp' = [resp EXCEPT ![w] =
                   [status |-> "returned", matched |-> check_site_url(req[w].url)]]
    /\ pc' = [pc EXCEPT ![w] = "done"]
    /\ UNCHANGED <<stores, nextUuid, req, loc, follows>>

NextUrl == check_site_url_call(W1)

SpecUrl == InitUrl /\ [][NextUrl]_vars

(***************************************************************************)
(* The schedule engine's properties (checked under SpecSched)              *)
(***************************************************************************)
ScheduleDocs(target, plan) ==
    Matching(scanschedules, target, plan)

ScheduleCount(target, plan) ==
    Count(scanschedules, target, plan)

\* worker W1 has completed a scanschedule request
ScheduleDone ==
    pc[W1] = "done" /\ req[W1].op = "scanschedule"

ScheduleSucceeded == ScheduleDone /\ resp[W1].success = TRUE

\* C1: once a schedule document exists for a (site, plan) key, one exists in
\* every later state: no scanschedule request takes the key back to absent.
C1_ScheduleNeverAbsentAgain ==
    [][\A k \in ScheduleKeys :
           ScheduleCount(k[1], k[2]) > 0 => (ScheduleCount(k[1], k[2]) > 0)']_vars

\* C1 witness: a remove request has been handled for a key that had a
\* document, and the document is still there, disabled.
C1_Witness ==
    /\ ScheduleSucceeded
    /\ "remove" \in DOMAIN req[W1].json.schedule
    /\ loc[W1].schedule # {}
    /\ \E d \in ScheduleDocs(req[W1].json.target, req[W1].json.plan) : ~d.enabled

\* C2: a scanschedule request with a crontab field that fails validation
\* returns success=false with the error list and leaves the schedule store
\* as it was, with or without the remove flag.
C2_InvalidCrontabWritesNothing ==
    [][(/\ pc[W1] \in {"idle", "done"}
        /\ req'[W1].op = "scanschedule"
        /\ check_cron(RequestCrontab(req'[W1].json.schedule)) # <<>>)
       => (/\ pc'[W1] = "done"
           /\ resp'[W1].success = FALSE
           /\ resp'[W1].errors = check_cron(RequestCrontab(req'[W1].json.schedule))
           /\ scanschedules' = scanschedules)]_vars

\* C2 witness: a request with the remove flag and two failing fields was
\* refused for a key whose document is stored enabled.
C2_Witness ==
    /\ ScheduleDone
    /\ resp[W1].success = FALSE
    /\ Len(resp[W1].errors) = 2
    /\ "remove" \in DOMAIN req[W1].json.schedule
    /\ \E d \in ScheduleDocs(req[W1].json.target, req[W1].json.plan) : d.enabled

\* C3: for an existing (site, plan) schedule a valid request sets enabled from
\* the remove flag (remove=true disables; remove absent or false enables), and
\* the message says 'Removed Schedule' exactly when the stored enabled becomes
\* false and 'Scheduled Scan successfully set' exactly when it becomes true.
C3_EnabledFollowsRemoveFlag ==
    (ScheduleSucceeded /\ loc[W1].schedule # {})
    => LET json == req[W1].json
           removed == "remove" \in DOMAIN json.schedule /\ json.schedule.remove = TRUE
       IN \A d \in ScheduleDocs(json.target, json.plan) :
              /\ d.enabled = ~removed
              /\ (resp[W1].message = "Removed Schedule for: " \o json.target)
                     <=> ~d.enabled
              /\ (resp[W1].message =
                      "Scheduled Scan successfully set for site: " \o json.target)
                     <=> d.enabled

\* C4: submitting the same valid schedule (no remove flag) twice leaves one
\* document for the key, enabled, and the store as it was after the first
\* submission; the same schedule with remove=true afterwards leaves that
\* single document with enabled=false.
C4_UpsertIdempotent ==
    /\ [](ScheduleDone /\ follows[W1].rel = "same"
              /\ ~("remove" \in DOMAIN req[W1].json.schedule)
          => /\ ScheduleCount(req[W1].json.target, req[W1].json.plan) = 1
             /\ \A d \in ScheduleDocs(req[W1].json.target, req[W1].json.plan) :
                    d.enabled)
    /\ [](ScheduleDone /\ follows[W1].rel = "remove_after_same"
          => /\ ScheduleCount(req[W1].json.target, req[W1].json.plan) = 1
             /\ \A d \in ScheduleDocs(req[W1].json.target, req[W1].json.plan) :
                    ~d.enabled)
    /\ [][(/\ pc[W1] = "scanschedule_write"
           /\ follows[W1].rel = "same"
           /\ ~("remove" \in DOMAIN req[W1].json.schedule))
          => scanschedules' = scanschedules]_vars
    /\ [][(pc[W1] = "scanschedule_write" /\ follows[W1].rel = "remove_after_same")
          => \E d \in ScheduleDocs(req[W1].json.target, req[W1].json.plan) :
                 scanschedules' = (scanschedules (-) SetToBag({d}))
                                      (+) SetToBag({[d EXCEPT !.enabled = FALSE]})]_vars

\* C4 witness: the same schedule was submitted twice and then once more with
\* remove=true; its single document is stored disabled.
C4_Witness ==
    /\ ScheduleSucceeded
    /\ follows[W1].rel = "remove_after_same"
    /\ ScheduleCount(req[W1].json.target, req[W1].json.plan) = 1
    /\ \A d \in ScheduleDocs(req[W1].json.target, req[W1].json.plan) : ~d.enabled

(***************************************************************************)
(* check_cron's properties (checked under SpecCron)                        *)
(***************************************************************************)
\* the fields in the order of the try blocks: name, parser bounds, value
CronFields(crontab) ==
    << <<"Minute", 60, 0, crontab.minute>>,
       <<"Hour", 24, 0, crontab.hour>>,
       <<"Day of Week", 7, 0, crontab.day_of_week>>,
       <<"Day of Month", 31, 1, crontab.day_of_month>>,
       <<"Month of Year", 12, 1, crontab.month_of_year>> >>

FailingFields(crontab) ==
    SelectSeq(CronFields(crontab), LAMBDA f : ~crontab_parse_ok(f[4], f[2], f[3]))

\* C5: check_cron checks the five fields independently and without
\* short-circuit: the error list holds 'Error in Value: <FieldName>' once for
\* each failing field and for no other, in the order Minute, Hour, Day of
\* Week, Day of Month, Month of Year.
C5_OneErrorPerFailingField ==
    (pc[W1] = "done" /\ req[W1].op = "check_cron")
    => LET failing == FailingFields(req[W1].crontab)
       IN resp[W1].cron_errors =
              [i \in 1..Len(failing) |-> "Error in Value: " \o failing[i][1]]

\* C5 witness: check_cron has returned for a crontab whose minute and
\* month_of_year fail (99 and 13) and whose other fields pass; the list is
\* those two errors.
C5_Witness ==
    /\ pc[W1] = "done"
    /\ req[W1].op = "check_cron"
    /\ req[W1].crontab.minute = "99"
    /\ req[W1].crontab.month_of_year = "13"
    /\ resp[W1].cron_errors =
           <<"Error in Value: Minute", "Error in Value: Month of Year">>

\* the fields of a schedule record other than crontab and enabled
FixedFields(d) == [f \in DOMAIN d \ {"crontab", "enabled"} |-> d[f]]

ScheduleDescriptorIntact ==
    \A d \in BagToSet(scanschedules) :
        /\ d.task = "minion.backend.tasks.run_scheduled_scan"
        /\ d.args = <<d.site, d.plan>>
        /\ d.queue = "scanschedule"
        /\ d.routing_key = "scanschedule"
        /\ d.name = d.site \o ":" \o d.plan

\* the write of a request leaves the records of the other keys alone and, on
\* an existing record, changes nothing but crontab and enabled
ScheduleWriteStep ==
    pc[W1] = "scanschedule_write" =>
        LET site == loc[W1].data.site
            plan == loc[W1].data.plan
        IN /\ \A k \in ScheduleKeys \ {<<site, plan>>} :
                  /\ Matching(scanschedules', k[1], k[2]) = Matching(scanschedules, k[1], k[2])
                  /\ Count(scanschedules', k[1], k[2]) = Count(scanschedules, k[1], k[2])
           /\ loc[W1].schedule # {} =>
                  /\ Count(scanschedules', site, plan) = Count(scanschedules, site, plan)
                  /\ {FixedFields(d) : d \in Matching(scanschedules', site, plan)}
                         = {FixedFields(d) : d \in Matching(scanschedules, site, plan)}

\* C19: a scanschedule request on an existing record changes only its
\* crontab and enabled and touches no record of another key, so every stored
\* record keeps the task, args = [site, plan], queue, routing_key and
\* name = site:plan it was created with.
C19_OnlyCrontabAndEnabledChange ==
    []ScheduleDescriptorIntact /\ [][ScheduleWriteStep]_vars

\* an existing record got another crontab and enabled flag while a record of
\* another plan of the site is stored
C19_Witness ==
    /\ ScheduleSucceeded
    /\ \E old \in loc[W1].schedule :
           /\ old.crontab # loc[W1].crontab
           /\ old.enabled # loc[W1].enabled
           /\ \E d \in ScheduleDocs(old.site, old.plan) :
                  /\ d.crontab = loc[W1].crontab
                  /\ d.enabled = loc[W1].enabled
                  /\ FixedFields(d) = FixedFields(old)
           /\ \E k \in ScheduleKeys :
                  k[1] = old.site /\ k[2] # old.plan /\ ScheduleCount(k[1], k[2]) = 1

\* the five crontab fields of the request W1 has completed
RequestedCrontab ==
    [minute        |-> req[W1].json.schedule.minute,
     hour          |-> req[W1].json.schedule.hour,
     day_of_week   |-> req[W1].json.schedule.dayOfWeek,
     day_of_month  |-> req[W1].json.schedule.dayOfMonth,
     month_of_year |-> req[W1].json.schedule.monthOfYear]

\* C20: after a successful scanschedule request the record of its (site,
\* plan) key holds the five crontab fields of the request, whichever way the
\* request moved the enabled flag.
C20_CrontabRefreshed ==
    ScheduleSucceeded =>
        /\ ScheduleCount(req[W1].json.target, req[W1].json.plan) = 1
        /\ \A d \in ScheduleDocs(req[W1].json.target, req[W1].json.plan) :
               d.crontab = RequestedCrontab

\* an enabled record with another crontab was disabled by the request
C20_Witness ==
    /\ ScheduleSucceeded
    /\ "remove" \in DOMAIN req[W1].json.schedule
    /\ \E old \in loc[W1].schedule :
           /\ old.enabled = TRUE
           /\ old.crontab # RequestedCrontab
    /\ \E d \in ScheduleDocs(req[W1].json.target, req[W1].json.plan) :
           d.enabled = FALSE /\ d.crontab = RequestedCrontab

\* the write of a request that carries the remove flag, its key absent
RemoveOfAbsentKey ==
    /\ pc[W1] = "scanschedule_write"
    /\ "remove" \in DOMAIN req[W1].json.schedule
    /\ ScheduleCount(req[W1].json.target, req[W1].json.plan) = 0

\* C22: the write of a valid scanschedule request that carries the remove
\* flag for a key without a record inserts one record, with enabled = false:
\* the key goes from absent to disabled in one step.
C22_RemoveOfAbsentInsertsDisabled ==
    [][RemoveOfAbsentKey =>
           /\ (ScheduleCount(req[W1].json.target, req[W1].json.plan) = 1)'
           /\ (\A d \in ScheduleDocs(req[W1].json.target, req[W1].json.plan) :
                   d.enabled = FALSE)'
           /\ (ScheduleSucceeded)']_vars

\* the first request for the key carried the remove flag: its record is
\* stored disabled
C22_Witness ==
    /\ ScheduleSucceeded
    /\ "remove" \in DOMAIN req[W1].json.schedule
    /\ loc[W1].schedule = {}
    /\ ScheduleCount(req[W1].json.target, req[W1].json.plan) = 1
    /\ \A d \in ScheduleDocs(req[W1].json.target, req[W1].json.plan) :
           d.enabled = FALSE /\ d.crontab = RequestedCrontab

(***************************************************************************)
(* The credential store's properties (checked under SpecCred)              *)
(***************************************************************************)
CredentialDocs(site, plan) ==
    Matching(siteCredentials, site, plan)

CredentialCount(site, plan) ==
    Count(siteCredentials, site, plan)

\* the request asks for a removal
CredentialRemoval(request) ==
    /\ request.op = "setCredentials"
    /\ "remove" \in DOMAIN request.json.authData
    /\ request.json.authData["remove"] = TRUE

\* an update of an existing record: every other authData field is overwritten
\* and the password is replaced only by a non-empty one
C9_UpdateKeepsPassword ==
    (/\ pc[W1] = "done"
     /\ req[W1].op = "setCredentials"
     /\ ~CredentialRemoval(req[W1])
     /\ loc[W1].siteCreds # {})
    => LET json == req[W1].json
           given == json.authData
           blank == "password" \notin DOMAIN given \/ given["password"] = ""
       IN /\ CredentialCount(json.site, json.plan) = 1
          /\ resp[W1].success = TRUE
          /\ \A old \in loc[W1].siteCreds :
             \A d \in CredentialDocs(json.site, json.plan) :
                /\ \A f \in OtherAuthFields :
                       /\ f \in DOMAIN d.authData
                       /\ d.authData[f] = (IF f \in DOMAIN given THEN given[f] ELSE None)
                /\ ~blank => /\ "password" \in DOMAIN d.authData
                             /\ d.authData["password"] = given["password"]
                /\ blank => /\ "password" \in DOMAIN d.authData
                                <=> "password" \in DOMAIN old.authData
                            /\ "password" \in DOMAIN old.authData
                                => d.authData["password"] = old.authData["password"]

\* a removal deletes the record of its key, succeeds, leaves the other
\* records alone and changes nothing when the key is absent
C9_RemovalStep ==
    (/\ pc[W1] \in {"idle", "done"}
     /\ CredentialRemoval(req'[W1]))
    => LET json == req'[W1].json
       IN /\ pc'[W1] = "done"
          /\ resp'[W1].success = TRUE
          /\ \A d \in BagToSet(siteCredentials') : ~(d.site = json.site /\ d.plan = json.plan)
          /\ \A d \in BagToSet(siteCredentials) :
                 ~(d.site = json.site /\ d.plan = json.plan)
                 => CopiesIn(d, siteCredentials') = CopiesIn(d, siteCredentials)
          /\ CredentialCount(json.site, json.plan) = 0
                 => siteCredentials' = siteCredentials

\* C9: for an existing (site, plan) credential record, setCredentials with an
\* empty or absent password leaves the stored password unchanged while
\* overwriting the other authData fields; with a non-empty password it
\* replaces the stored password; with authData.remove truthy it deletes the
\* record and returns success, and repeated on the absent key it returns
\* success with no state change.
C9_PartialUpdateAndRemoval ==
    []C9_UpdateKeepsPassword /\ [][C9_RemovalStep]_vars

\* C9 witness: an update with an empty password has overwritten the other
\* fields of an existing record and left its non-empty password in place.
C9_Witness ==
    /\ pc[W1] = "done"
    /\ req[W1].op = "setCredentials"
    /\ ~CredentialRemoval(req[W1])
    /\ "password" \in DOMAIN req[W1].json.authData
    /\ req[W1].json.authData["password"] = ""
    /\ \E old \in loc[W1].siteCreds :
       \E d \in CredentialDocs(req[W1].json.site, req[W1].json.plan) :
          /\ "password" \in DOMAIN old.authData
          /\ old.authData["password"] = "pw2"
          /\ d.authData["password"] = "pw2"
          /\ old.authData["method"] = "v2"
          /\ d.authData["method"] = "v1"

\* C10: every record the masked listing returns has password "", and the
\* listing has a record for every stored (site, plan) credential, whatever
\* the stored password.
C10_ListingMasksPasswords ==
    (pc[W1] = "done" /\ req[W1].op = "get_credInfo")
    => LET credInfo == resp[W1].credInfo
       IN /\ \A s \in DOMAIN credInfo : \A p \in DOMAIN credInfo[s] :
                 /\ "password" \in DOMAIN credInfo[s][p].authData
                 /\ credInfo[s][p].authData["password"] = ""
          /\ \A d \in BagToSet(siteCredentials) :
                 /\ d.site \in DOMAIN credInfo
                 /\ d.plan \in DOMAIN credInfo[d.site]

\* C10 witness: the listing was returned while a record with the non-empty
\* password "pw1" is stored, and its entry carries the empty password.
C10_Witness ==
    /\ pc[W1] = "done"
    /\ req[W1].op = "get_credInfo"
    /\ \E d \in BagToSet(siteCredentials) :
          /\ "password" \in DOMAIN d.authData
          /\ d.authData["password"] = "pw1"
          /\ resp[W1].credInfo[d.site][d.plan].authData["password"] = ""

(***************************************************************************)
(* Site registry and group membership                                      *)
(***************************************************************************)
SeqSet(s) == {s[i] : i \in DOMAIN s}

\* the groups whose sites set holds the url
GroupSet(url) == {g \in DOMAIN groups : url \in groups[g]}

SiteDone(op) ==
    pc[W1] = "done" /\ req[W1].op = op /\ resp[W1].status = "200"

SiteSucceeded(op) == SiteDone(op) /\ resp[W1].success = TRUE

C6_MembershipAfterRequest ==
    /\ SiteSucceeded("create_site") =>
           /\ GroupSet(req[W1].json["url"]) = SeqSet(ListOf(req[W1].json, "groups"))
           /\ resp[W1].site.groups = ListOf(req[W1].json, "groups")
    /\ (SiteSucceeded("update_site") /\ "groups" \in DOMAIN req[W1].json) =>
           /\ GroupSet(resp[W1].site.url) = SeqSet(req[W1].json["groups"])
           /\ SeqSet(resp[W1].site.groups) = SeqSet(req[W1].json["groups"])

\* a group write of an update leaves alone every group the site is in and
\* stays in, and every other url of every group
C6_GroupWriteStep ==
    (pc[W1] = "update_site_groups" /\ groups' # groups) =>
        \A g \in DOMAIN groups :
            /\ groups'[g] \ {loc[W1].site.url} = groups[g] \ {loc[W1].site.url}
            /\ (loc[W1].site.url \in groups[g] /\ g \in SeqSet(req[W1].json["groups"]))
                   => groups'[g] = groups[g]

\* C6: served one at a time, a successful create_site leaves the url in
\* exactly the groups the request lists, and a successful update_site that
\* lists groups leaves it in exactly those (removed from the others, added to
\* the new ones, the groups it stays in untouched) and answers with that set.
C6_GroupsFollowRequest ==
    []C6_MembershipAfterRequest /\ [][C6_GroupWriteStep]_vars

\* create with groups [A, B], then update with groups [B, C]
C6_Witness ==
    /\ SiteSucceeded("update_site")
    /\ follows[W1].rel = "update_of_created"
    /\ ListOf(follows[W1].prev, "groups") = <<"A", "B">>
    /\ ListOf(req[W1].json, "groups") = <<"B", "C">>
    /\ GroupSet(resp[W1].site.url) = {"B", "C"}
    /\ resp[W1].site.groups = <<"B", "C">>

\* a step that takes up a create_site request for a url that is stored
CreateOfStoredUrl ==
    /\ pc[W1] \in {"idle", "done"}
    /\ req'[W1].op = "create_site"
    /\ "url" \in DOMAIN req'[W1].json
    /\ \E s \in sites : s.url = req'[W1].json["url"]

RefusedWith(response, reasons) ==
    /\ response.status = "200"
    /\ response.success = FALSE
    /\ response.reason \in reasons

\* C7 as stated: every create_site for a stored url answers
\* site-already-exists and changes nothing
C7_StoredUrlAlwaysAlreadyExists ==
    [][CreateOfStoredUrl =>
           /\ pc'[W1] = "done"
           /\ RefusedWith(resp'[W1], {"site-already-exists"})
           /\ stores' = stores]_vars

\* C7: a create_site for a stored url changes no site record and no group;
\* it answers site-already-exists when every group and plan it names exists,
\* and unknown-group or unknown-plan when one does not.
C7_StoredUrlRefusedUnchanged ==
    [][CreateOfStoredUrl =>
           /\ pc'[W1] = "done"
           /\ stores' = stores
           /\ IF UpdateSiteRefusal(req'[W1].json) = ""
              THEN RefusedWith(resp'[W1], {"site-already-exists"})
              ELSE RefusedWith(resp'[W1], {"unknown-group", "unknown-plan"})]_vars

\* the refused request names other groups and plans than the stored site has
C7_Witness ==
    /\ SiteDone("create_site")
    /\ RefusedWith(resp[W1], {"site-already-exists"})
    /\ \E s \in sites :
           /\ s.url = req[W1].json["url"]
           /\ s.plans # ListOf(req[W1].json, "plans")
           /\ GroupSet(s.url) # SeqSet(ListOf(req[W1].json, "groups"))

\* C8: no two stored site records share a url, also when create_site
\* requests interleave between the find_one and the insert
C8_UrlsUnique ==
    \A s, t \in sites : s.url = t.url => s = t

Referential == {"unknown-group", "unknown-plan", "no-such-site"}

SiteRequestDone ==
    pc[W1] = "done" /\ req[W1].op \in {"create_site", "update_site"}

\* C11: a create_site or update_site request that answers unknown-group,
\* unknown-plan or no-such-site leaves the site records and every group's
\* sites set as they were when the request began.
C11_ReferentialRefusalWritesNothing ==
    (SiteRequestDone /\ RefusedWith(resp[W1], Referential)) =>
        /\ sites = follows[W1].before.sites
        /\ groups = follows[W1].before.groups

\* refused for an unknown plan listed after a valid one, the request also
\* asking for a group the site is not in
C11_Witness ==
    /\ SiteDone("update_site")
    /\ RefusedWith(resp[W1], {"unknown-plan"})
    /\ req[W1].json["plans"] = <<"nmap", "nope">>
    /\ \E s \in sites :
           /\ s.id = req[W1].site_id
           /\ \E i \in DOMAIN req[W1].json["groups"] :
                  s.url \notin groups[req[W1].json["groups"][i]]

\* C12: a create_site request without a url answers success=false with
\* reason missing-required-field and writes no site record and no membership.
C12_MissingUrlReported ==
    (pc[W1] = "done" /\ req[W1].op = "create_site" /\ "url" \notin DOMAIN req[W1].json) =>
        /\ RefusedWith(resp[W1], {"missing-required-field"})
        /\ sites = follows[W1].before.sites
        /\ groups = follows[W1].before.groups

SiteById(coll, site_id) == CHOOSE s \in coll : s.id = site_id

\* every id and verification token of the site records coll
Tokens(coll) == {s.id : s \in coll} \cup {s.verification.value : s \in coll}

UpdateWithVerificationSucceeded ==
    SiteSucceeded("update_site") /\ "verification" \in DOMAIN req[W1].json

\* C13: after a successful update_site naming a verification, a site whose
\* stored enabled flag differed from the requested one has the requested
\* flag and a token generated by this request (also when disabling); a site
\* whose flag already was the requested one has its verification as before.
C13_VerificationReconciled ==
    UpdateWithVerificationSucceeded =>
        LET old == SiteById(follows[W1].before.sites, req[W1].site_id)
            new == SiteById(sites, req[W1].site_id)
            requested == req[W1].json["verification"].enabled
        IN IF old.verification.enabled # requested
           THEN /\ new.verification.enabled = requested
                /\ new.verification.value # None
                /\ new.verification.value \notin Tokens(follows[W1].before.sites)
           ELSE new.verification = old.verification

\* verification switched off: the token is replaced, not cleared
C13_Witness ==
    /\ UpdateWithVerificationSucceeded
    /\ req[W1].json["verification"].enabled = FALSE
    /\ SiteById(follows[W1].before.sites, req[W1].site_id).verification.enabled = TRUE
    /\ SiteById(sites, req[W1].site_id).verification.enabled = FALSE
    /\ SiteById(sites, req[W1].site_id).verification.value
           # SiteById(follows[W1].before.sites, req[W1].site_id).verification.value

(***************************************************************************)
(* The url format (checked under SpecUrl)                                  *)
(***************************************************************************)
\* localhost or a hostname of at least two labels
HostNames == {"localhost", "a.b", "a-1.b2.c", "1.2.3.4", "256.1.1.1"}

\* dotted quads with every octet in 0..255
Ipv4Addresses == {"1.2.3.4"}

\* the urls the stated format admits
WellFormedUrl(u) ==
    \/ /\ u.scheme \in {"http://", "https://"}
       /\ u.host \in HostNames
       /\ u.tail \in {"", ":80"}
    \/ /\ u.scheme = ""
       /\ u.host \in Ipv4Addresses
       /\ u.tail \in {"", "/0", "/32"}

\* C14: _check_site_url returns true exactly for the strings that as a whole
\* are http(s)://host[:port], host being localhost or a hostname of two or
\* more labels, or an IPv4 address with an optional /0-32 suffix.
C14_AcceptsExactlyWellFormed ==
    (pc[W1] = "done" /\ req[W1].op = "check_site_url") =>
        (resp[W1].matched <=> WellFormedUrl(req[W1].parts))

(***************************************************************************)
(* The crontab ranges (checked under SpecCron)                             *)
(***************************************************************************)
CronRanges ==
    [minute |-> 0..59, hour |-> 0..23, day_of_week |-> 0..6,
     day_of_month |-> 1..31, month_of_year |-> 1..12]

CronMessages ==
    [minute |-> "Error in Value: Minute", hour |-> "Error in Value: Hour",
     day_of_week |-> "Error in Value: Day of Week",
     day_of_month |-> "Error in Value: Day of Month",
     month_of_year |-> "Error in Value: Month of Year"]

\* C15: for a field whose value is a single integer, check_cron reports the
\* field's error exactly when the integer is outside minute 0-59, hour 0-23,
\* day_of_week 0-6, day_of_month 1-31, month_of_year 1-12.
C15_IntegerRanges ==
    (pc[W1] = "done" /\ req[W1].op = "check_cron") =>
        \A f \in DOMAIN CronRanges :
            IsInt(Chars(req[W1].crontab[f])) =>
                (CronMessages[f] \in SeqSet(resp[W1].cron_errors)
                     <=> ToInt(Chars(req[W1].crontab[f])) \notin CronRanges[f])

\* minute 60, day_of_week 7 and day_of_month 0 are reported, hour 23 and
\* month_of_year 12 are not
C15_Witness ==
    /\ pc[W1] = "done"
    /\ req[W1].op = "check_cron"
    /\ req[W1].crontab =
           [minute |-> "60", hour |-> "23", day_of_week |-> "7",
            day_of_month |-> "0", month_of_year |-> "12"]
    /\ resp[W1].cron_errors =
           <<"Error in Value: Minute", "Error in Value: Day of Week",
             "Error in Value: Day of Month">>

(***************************************************************************)
(* The schedule engine under two clients (checked under SpecSchedConc)     *)
(***************************************************************************)
ScheduleWritten(w) ==
    /\ pc[w] = "done"
    /\ req[w].op = "scanschedule"
    /\ resp[w].status = "200"
    /\ resp[w].success = TRUE

\* both clients have finished a valid request for the same key, and each
\* found no record for it
BothSawAbsent ==
    /\ \A w \in Workers : ScheduleWritten(w) /\ loc[w].schedule = {}
    /\ \A v, w \in Workers :
           /\ req[v].json.target = req[w].json.target
           /\ req[v].json.plan = req[w].json.plan

\* C16: when two valid scanschedule requests for one absent key both find
\* no record before either writes, the store ends with exactly one record
\* for the key.
C16_RacingInsertsLeaveOneRecord ==
    BothSawAbsent =>
        \A w \in Workers : ScheduleCount(req[w].json.target, req[w].json.plan) = 1

(***************************************************************************)
(* The site registry under two clients (checked under SpecSiteConc)        *)
(***************************************************************************)
\* C17: however the steps of create_site and update_site requests interleave,
\* every url in a group's sites set is the url of a stored site record.
C17_MembersAreStoredSites ==
    \A g \in DOMAIN groups : \A url \in groups[g] : \E s \in sites : s.url = url

\* one client between its insert and its last membership write while the
\* other is in the middle of the group writes of an update
C17_Witness ==
    \E v, w \in Workers :
        /\ pc[v] = "create_site_groups"
        /\ Len(loc[v].todo) = 1
        /\ Len(ListOf(req[v].json, "groups")) = 2
        /\ pc[w] = "update_site_groups"
        /\ Len(loc[w].todo) = 1
        /\ \E g \in DOMAIN groups : groups[g] # {}

(***************************************************************************)
(* Concurrent updates of one site (checked under SpecRegroup)              *)
(***************************************************************************)
\* both clients have completed an update_site of the same site that lists
\* groups
BothUpdated ==
    /\ \A w \in Workers :
           /\ pc[w] = "done"
           /\ req[w].op = "update_site"
           /\ resp[w].status = "200"
           /\ resp[w].success = TRUE
           /\ "groups" \in DOMAIN req[w].json
    /\ \A v, w \in Workers : req[v].site_id = req[w].site_id

UpdatedUrl == resp[W1].site.url

RequestedSets == {SeqSet(req[w].json["groups"]) : w \in Workers}

\* C18: after two update_site requests for one site have both completed,
\* however their steps interleaved, the site is in a group exactly if one of
\* the two requested lists says so for that group.
C18_LastWriteWinsPerGroup ==
    BothUpdated =>
        \A g \in DOMAIN groups :
            \E L \in RequestedSets : (UpdatedUrl \in groups[g]) <=> (g \in L)

\* the memberships as a whole are neither of the two requested lists
C18_Witness ==
    /\ BothUpdated
    /\ GroupSet(UpdatedUrl) \notin RequestedSets

(***************************************************************************)
(* What update_site leaves alone (checked under SpecSite)                  *)
(***************************************************************************)
OtherSites(coll, site_id) == {s \in coll : s.id # site_id}

Addressed(coll, site_id) == {s \in coll : s.id = site_id}

\* the fields of a site record that are set at creation
Identity(s) == [id |-> s.id, url |-> s.url, created |-> s.created]

\* C21: from its first step to its last, an update_site request leaves every
\* other site record as it was and the addressed record's url, id and created
\* as they were; the stored plans differ from before only if the request
\* supplies plans and then are the supplied list, which they also are after
\* every successful request that supplies plans.
C21_UpdateFrame ==
    req[W1].op = "update_site" =>
        LET before == follows[W1].before.sites
            site_id == req[W1].site_id
        IN /\ OtherSites(sites, site_id) = OtherSites(before, site_id)
           /\ {Identity(s) : s \in Addressed(sites, site_id)}
                  = {Identity(s) : s \in Addressed(before, site_id)}
           /\ \A old \in Addressed(before, site_id), new \in Addressed(sites, site_id) :
                  /\ new.plans # old.plans =>
                         /\ "plans" \in DOMAIN req[W1].json
                         /\ new.plans = req[W1].json["plans"]
                  /\ (SiteSucceeded("update_site") /\ "plans" \in DOMAIN req[W1].json)
                         => new.plans = req[W1].json["plans"]

\* the plans of one site were replaced while another site is stored
C21_Witness ==
    /\ SiteSucceeded("update_site")
    /\ "plans" \in DOMAIN req[W1].json
    /\ OtherSites(sites, req[W1].site_id) # {}
    /\ \E old \in Addressed(follows[W1].before.sites, req[W1].site_id) :
           /\ old.plans # req[W1].json["plans"]
           /\ old.verification.enabled # req[W1].json["verification"].enabled
    /\ \E new \in Addressed(sites, req[W1].site_id) :
           new.plans = req[W1].json["plans"]

\* the groups that held the url when the request of W1 began
GroupSetBefore(url) ==
    {g \in DOMAIN groups : url \in follows[W1].before.groups[g]}

\* the memberships of every url other than the given one are as they were
\* when the request of W1 began
OtherUrlsKept(url) ==
    \A g \in DOMAIN groups :
        groups[g] \ {url} = follows[W1].before.groups[g] \ {url}

\* C23: at every step of an update_site request without a groups key every
\* group's sites set is as the request found it; once a request with
\* groups = [] that was not refused has ended, the site's url is in no group
\* and the other urls are where they were.
C23_NoGroupsKeyVersusEmptyList ==
    req[W1].op = "update_site" =>
        /\ "groups" \notin DOMAIN req[W1].json => groups = follows[W1].before.groups
        /\ ( /\ pc[W1] = "done"
             /\ "groups" \in DOMAIN req[W1].json
             /\ req[W1].json["groups"] = <<>>
             /\ ~RefusedWith(resp[W1], Referential) )
           => \A s \in Addressed(sites, req[W1].site_id) :
                  GroupSet(s.url) = {} /\ OtherUrlsKept(s.url)

\* a site that was in two groups is in none after an update with groups = []
C23_Witness ==
    /\ SiteSucceeded("update_site")
    /\ "groups" \in DOMAIN req[W1].json
    /\ req[W1].json["groups"] = <<>>
    /\ GroupSetBefore(resp[W1].site.url) = {"A", "B"}
    /\ GroupSet(resp[W1].site.url) = {}
    /\ resp[W1].site.groups = <<>>

=============================================================================
